---- MODULE Spec2Model ----
(***************************************************************************)
(* Model of the research workflow of ResearchSync-Agent: the LangGraph     *)
(* state machine (coordinator -> planner -> human_review -> researcher     *)
(* loop -> rapporteur), the three executors that drive it                  *)
(* (ResearchWorkflow.stream_interactive with a callback, the WebSocket     *)
(* executor run_research_workflow, the RQ worker run_research_job), the    *)
(* approve_plan message handler, and the two task stores (the API          *)
(* process's tasks_store and the SQLite tasks table).                      *)
(*                                                                         *)
(* Library semantics the model relies on (langgraph, asyncio):             *)
(*  - a conditional edge is evaluated inside the step of its source node,  *)
(*    on that node's returned state, before the node's output is yielded   *)
(*    to the consumer of graph.stream;                                     *)
(*  - a running graph.stream keeps its channels in memory: it loads the    *)
(*    checkpoint once when it is entered, and update_state from outside    *)
(*    only writes a newer checkpoint into the saver, which the running     *)
(*    stream overwrites with its own next checkpoint;                      *)
(*  - interrupt_before=["human_review"] ends the stream whenever           *)
(*    human_review is the next node, except right after a resume           *)
(*    (graph.stream(None));                                                *)
(*  - StateGraph(dict) passes the state dict itself from node to node and  *)
(*    to the consumer, so a consumer that assigns into the yielded dict    *)
(*    changes the state the next node receives;                            *)
(*  - coroutines of one event loop switch only at an await.                *)
(***************************************************************************)
EXTENDS Integers, Sequences, FiniteSets, TLC

\* ---------------------------------------------------------------- bounds
MaxTasks == 3
MaxEst == 3
MaxCallerIter == 2
MaxDecisions == 2
MaxSearches == 1

\* ------------------------------------------------------ program constants
DefaultMaxIterations == 5
DefaultEstimated == 3
FallbackEstimated == 2
DefaultPriority == 99

None == "none"
Feedbacks == {"fb"}
\* The planning model's answer without an estimated_iterations key.
NoEst == -1
\* A subtask without a priority key.
NoPriority == -1

\* ----------------------------------------------------------- the planner
\* A subtask as the planner model returns it; priority NoPriority stands
\* for a subtask without the key.
SubTask(id, prio, status) == [task_id |-> id, priority |-> prio, status |-> status]

\* _create_fallback_plan: one pending subtask, task_id 1, priority 1.
FallbackSubTasks == << SubTask(1, 1, "pending") >>

\* The answers of the planning model: a plan of n subtasks with task_ids
\* 1..n, each of priority 1 and without a status key, with an
\* estimated_iterations value or none; or an answer without braces, or one
\* that is not JSON. A plan of no subtasks is also what a JSON object
\* without the sub_tasks key gives (plan.get('sub_tasks', [])).
LLMSubTasks(n) == [i \in 1..n |-> SubTask(i, 1, "unset")]

NoBraces == [kind |-> "nobraces", sub_tasks |-> << >>, est |-> NoEst]
BadJson == [kind |-> "badjson", sub_tasks |-> << >>, est |-> NoEst]

PlanOutputs ==
    { [kind |-> "ok", sub_tasks |-> LLMSubTasks(n), est |-> est] :
        n \in 0..MaxTasks, est \in (0..MaxEst) \cup {NoEst} }
    \cup {NoBraces, BadJson}

\* The answers drawn where two executors run the same task (the worker and
\* the API's executor of a connected client; the executors of two
\* connections): the two fallbacks and one plan.
FewPlanOutputs == {NoBraces, BadJson, [kind |-> "ok", sub_tasks |-> LLMSubTasks(1), est |-> 1]}

\* t.get('priority', 99): the priority get_next_task sorts a subtask by.
priority_key(t) == IF t.priority = NoPriority THEN DefaultPriority ELSE t.priority

\* The (priority, task_id) sort key of get_next_task.
KeyLess(a, b) ==
    \/ priority_key(a) < priority_key(b)
    \/ priority_key(a) = priority_key(b) /\ a.task_id < b.task_id

\* get_next_task: the first pending subtask of the list sorted by
\* (priority, task_id); 0 when there is none (a stable sort: of two
\* subtasks with the same key the earlier in the list comes first).
PendingIdx(sub_tasks) == { i \in 1..Len(sub_tasks) : sub_tasks[i].status = "pending" }

get_next_task(S) ==
    IF ~S.has_plan \/ PendingIdx(S.sub_tasks) = {} THEN 0
    ELSE CHOOSE i \in PendingIdx(S.sub_tasks) :
            \A j \in PendingIdx(S.sub_tasks) \ {i} :
                \/ KeyLess(S.sub_tasks[i], S.sub_tasks[j])
                \/ ~KeyLess(S.sub_tasks[j], S.sub_tasks[i]) /\ i < j

SetPending(sub_tasks) == [i \in 1..Len(sub_tasks) |-> [sub_tasks[i] EXCEPT !.status = "pending"]]

\* create_research_plan, given the planning model's answer.
create_research_plan(S, out) ==
    IF out.kind = "badjson"
    THEN [S EXCEPT !.has_plan = TRUE, !.sub_tasks = FallbackSubTasks]
    ELSE LET subs == IF out.kind = "nobraces" THEN FallbackSubTasks ELSE out.sub_tasks
             est  == IF out.kind = "nobraces" THEN FallbackEstimated
                     ELSE IF out.est = NoEst THEN DefaultEstimated ELSE out.est
         IN [S EXCEPT !.has_plan = TRUE, !.sub_tasks = SetPending(subs),
                      !.max_iterations = est]

\* A variant of modify_plan that falls back to the minimal plan when the
\* answer cannot be parsed, as create_research_plan does; C20 is checked
\* against it.
modify_plan_with_fallback(S, out) ==
    IF out.kind = "ok" THEN [S EXCEPT !.sub_tasks = out.sub_tasks]
    ELSE [S EXCEPT !.sub_tasks = FallbackSubTasks]

\* modify_plan, given the planning model's answer.
modify_plan(S, out) ==
    IF out.kind = "ok" THEN [S EXCEPT !.sub_tasks = out.sub_tasks] ELSE S

\* evaluate_context_sufficiency asks the model only below the cap and with
\* at least one result gathered.
ConsultsLLM(S) ==
    /\ S.iteration_count < S.max_iterations
    /\ S.research_results # << >>

evaluate_context_sufficiency(S, answer) ==
    IF S.iteration_count >= S.max_iterations THEN TRUE
    ELSE IF S.research_results = << >> THEN FALSE
    ELSE answer

\* ------------------------------------------------------------- the nodes
initialize_research(qt, auto) ==
    [ query_type |-> qt, has_plan |-> FALSE, sub_tasks |-> << >>,
      plan_approved |-> FALSE, user_feedback |-> None,
      research_results |-> << >>, iteration_count |-> 0,
      max_iterations |-> DefaultMaxIterations, final_report |-> FALSE,
      current_step |-> IF qt = "RESEARCH" THEN "initializing" ELSE "completed",
      auto_approve_plan |-> auto ]

coordinator_node(S) ==
    IF S.query_type # "RESEARCH" THEN [S EXCEPT !.current_step = "completed"]
    ELSE [S EXCEPT !.current_step = "planning"]

\* Which branch planner_node takes.
PlannerMode(S) ==
    IF S.user_feedback # None /\ S.has_plan THEN "modify"
    ELSE IF ~S.has_plan THEN "create" ELSE "keep"

planner_node(S, out) ==
    LET T == [S EXCEPT !.current_step = "planning"]
    IN CASE PlannerMode(S) = "modify" -> modify_plan(T, out)
         [] PlannerMode(S) = "create" -> create_research_plan(T, out)
         [] OTHER -> T

human_review_node(S) ==
    [S EXCEPT !.current_step = "awaiting_approval",
              !.plan_approved = IF S.auto_approve_plan THEN TRUE ELSE S.plan_approved]

\* _search for one query and source, by how the search tool's call ends:
\* "ok" (a result with items), "raise" (the exception is caught: a result
\* with the error and no items), "none" (an unknown or unconfigured
\* source: no result).
SearchOutcomes == {"ok", "raise", "none"}

\* A variant of SearchResult that records a failed search like one that
\* found nothing; C22 is checked against it.
SearchResult_without_error(id, o) ==
    [task_id |-> id, error |-> FALSE, results |-> IF o = "ok" THEN 1 ELSE 0]

SearchResult(id, o) ==
    [task_id |-> id, error |-> (o = "raise"), results |-> IF o = "ok" THEN 1 ELSE 0]

\* The subtask execute_task marks: the first in the list with the id.
FirstWithId(sub_tasks, id) ==
    CHOOSE i \in 1..Len(sub_tasks) :
        /\ sub_tasks[i].task_id = id
        /\ \A j \in 1..(i - 1) : sub_tasks[j].task_id # id

\* A variant of execute_task that keeps only the results of the subtask it
\* ran; C23 is checked against it.
execute_task_overwriting(S, i, outs) ==
    LET id == S.sub_tasks[i].task_id
        k  == FirstWithId(S.sub_tasks, id)
        found == SelectSeq(outs, LAMBDA o : o # "none")
    IN [S EXCEPT !.research_results = [r \in 1..Len(found) |-> SearchResult(id, found[r])],
                 !.sub_tasks[k].status = "completed"]

\* A variant of execute_task that leaves the subtask it ran pending; C36
\* is checked against it.
execute_task_unmarked(S, i, outs) ==
    LET id == S.sub_tasks[i].task_id
        found == SelectSeq(outs, LAMBDA o : o # "none")
    IN [S EXCEPT !.research_results =
                     @ \o [r \in 1..Len(found) |-> SearchResult(id, found[r])]]

\* execute_task: one _search per query and source (outs: how each ended),
\* the results that are not None tagged with the subtask's id and
\* appended, and the first subtask with that id marked completed.
execute_task(S, i, outs) ==
    LET id == S.sub_tasks[i].task_id
        k  == FirstWithId(S.sub_tasks, id)
        found == SelectSeq(outs, LAMBDA o : o # "none")
    IN [S EXCEPT !.research_results =
                     @ \o [r \in 1..Len(found) |-> SearchResult(id, found[r])],
                 !.sub_tasks[k].status = "completed"]

\* A variant of researcher_node that does not count the subtask it
\* dispatched; C33 is checked against it.
researcher_node_uncounted(S, outs) ==
    LET T == [S EXCEPT !.current_step = "researching"]
        i == get_next_task(T)
    IN IF i # 0 THEN execute_task(T, i, outs) ELSE T

researcher_node(S, outs) ==
    LET T == [S EXCEPT !.current_step = "researching"]
        i == get_next_task(T)
    IN IF i # 0
       THEN [execute_task(T, i, outs) EXCEPT !.iteration_count = @ + 1]
       ELSE T

rapporteur_node(S) ==
    [S EXCEPT !.current_step = "generating_report", !.final_report = TRUE]

\* ------------------------------------------------- the conditional edges
should_continue_to_planner(S) ==
    IF S.query_type # "RESEARCH" THEN "END" ELSE "planner"

\* A variant of should_continue_research that lets every reviewed plan
\* through to the researcher; C1 is checked against it.
should_continue_research_unguarded(S) ==
    IF ~S.plan_approved THEN "researcher" ELSE "researcher"

should_continue_research(S) ==
    IF ~S.plan_approved THEN "planner" ELSE "researcher"

\* A variant of should_generate_report that looks at the pending subtasks
\* before the cap; C3 is checked against it.
should_generate_report_tasks_first(S, answer) ==
    IF get_next_task(S) # 0
    THEN [to |-> "researcher", checks |-> << "tasks" >>]
    ELSE IF S.iteration_count >= S.max_iterations
    THEN [to |-> "rapporteur", checks |-> << "tasks", "cap" >>]
    ELSE [to |-> "rapporteur", checks |-> << "tasks", "cap", "sufficiency" >>]

\* should_generate_report: the node it routes to, and the checks it made
\* on the way, in the order it made them.
should_generate_report(S, answer) ==
    IF S.iteration_count >= S.max_iterations
    THEN [to |-> "rapporteur", checks |-> << "cap" >>]
    ELSE IF evaluate_context_sufficiency(S, answer)
    THEN [to |-> "rapporteur", checks |-> << "cap", "sufficiency" >>]
    ELSE IF get_next_task(S) # 0
    THEN [to |-> "researcher", checks |-> << "cap", "sufficiency", "tasks" >>]
    ELSE [to |-> "rapporteur", checks |-> << "cap", "sufficiency", "tasks" >>]

\* ------------------------------------------------------------- the state
\* The executors: the in-process callback executor of the CLI, two
\* WebSocket executors of the API process (one per connection that found
\* the task pending) and the RQ worker.
WsEx == {"ws1", "ws2"}
Ex == {"cb", "wk"} \cup WsEx

VARIABLES
    deployment,   \* "cli"; "api" (no REDIS_URL); with REDIS_URL set, "rq" (no
                  \* WebSocket client connects) or "rqws" (one connects);
                  \* "api2": as "api", with two connections
    req,          \* the request: max_iterations, auto_approve
    run,          \* per executor: its position, its graph's state and saver
    task,         \* tasks_store[task_id], the API process's record
    db,           \* the row of the SQLite tasks table
    registered,   \* active_approval_events[task_id]: whose Event, or none
    evt,          \* per WebSocket executor: its Event is set
    decisions,    \* approve_plan messages handled so far
    hist          \* per executor: what the claims speak about

vars == << deployment, req, run, task, db, registered, evt, decisions, hist >>

Values(S) == [plan_approved |-> S.plan_approved, user_feedback |-> S.user_feedback]

IdleRun ==
    [ pc |-> "idle", S |-> initialize_research("RESEARCH", FALSE),
      next |-> "coordinator", resumed |-> FALSE, phase |-> 1, out |-> "none",
      saver |-> [plan_approved |-> FALSE, user_feedback |-> None] ]

\* What is recorded of an executor's run: how its approval wait ended
\* (gate, gate_fb), what the first planner step after it did, whether an
\* approval was on the record when the wait began, the checks and the
\* sufficiency answer of the last should_generate_report, and what the
\* researcher steps met; for a planner function applied on its own, which
\* one (mode), the kind of answer it got from the planning model (answer)
\* and the subtasks before the call (plan_was); and, when the job was run
\* again, what the run before it had reached.
IdleHist ==
    [ gate |-> "none", gate_fb |-> None, planner_after_gate |-> "none",
      planner_fb |-> None, pre_approved |-> FALSE, checks |-> << >>,
      sufficient |-> FALSE, answered_true |-> FALSE, researcher_runs |-> 0, unapproved_research |-> FALSE,
      feedback_at_research |-> FALSE, review_route |-> "none",
      mode |-> "none", answer |-> "none",
      plan_was |-> << >>,
      outs |-> << >>, dispatched |-> 0, raised |-> FALSE,
      pub |-> << >>,
      rerun |-> FALSE, results_before |-> << >>, plan_before |-> FALSE ]

\* start_research: the record of a new task, persisted.
NewTask ==
    [ status |-> "pending", decided |-> FALSE, plan_approved |-> FALSE,
      user_feedback |-> None, workflow |-> "none" ]

\* repr(obj): the text stored for a value json cannot encode.
Placeholder == "repr"

\* A variant of _serialize_task that hands the record on as it is; C28 is
\* checked against it.
serialize_task_unchanged(t) == t

\* _serialize_task: the live workflow object of the record becomes its
\* repr; None, strings and booleans stay. serialize_task stands for
\* _serialize_task.
serialize_task(t) ==
    [t EXCEPT !.workflow = IF @ = "none" THEN "none" ELSE Placeholder]

\* persist_task: the stored row is replaced by the serialised API record,
\* which has no error key and no progress key.
persist_task(t) ==
    LET ser == serialize_task(t)
    IN [ status |-> ser.status, decided |-> ser.decided,
         plan_approved |-> ser.plan_approved, user_feedback |-> ser.user_feedback,
         workflow |-> ser.workflow, error |-> None, progress |-> << >> ]

\* _update_task_in_db with a status (and an error): read, merge, replace.
\* update_task_in_db stands for _update_task_in_db.
update_task_in_db(row, status, error) ==
    [row EXCEPT !.status = status, !.error = IF error = None THEN @ ELSE error]

\* _update_task_in_db with status researching and progress {"last_state":
\* current_state}: the state is stored as it is at the write.
update_progress(row, S) ==
    [update_task_in_db(row, "researching", None) EXCEPT !.progress = << S >>]

InitIn(deployments) ==
    /\ deployment \in deployments
    /\ req \in [max_iterations : 1..MaxCallerIter, auto_approve : BOOLEAN]
    /\ run = [e \in Ex |-> IdleRun]
    /\ task = NewTask
    /\ db = persist_task(NewTask)
    /\ registered = "none"
    /\ evt = [e \in WsEx |-> FALSE]
    /\ decisions = 0
    /\ hist = [e \in Ex |-> IdleHist]

Init == InitIn({"cli", "api", "rq", "rqws"})

\* A coroutine of the API's event loop is at an await (or not running).
WsAtAwait(e) ==
    run[e].pc \in {"idle", "scheduled", "ws_send_planning", "ws_plan_ready", "ws_waiting",
                   "ws_timeout_send", "ws_await", "ws_final_send", "done"}

\* Executor e may run: no other coroutine of the event loop is in the
\* middle of synchronous code.
MayRun(e) == e \in WsEx => \A o \in WsEx \ {e} : WsAtAwait(o)

\* The first state of a run: initialize_research, then the caller's
\* max_iterations when it is given (run / stream / stream_interactive).
InitialState(qt) ==
    [initialize_research(qt, req.auto_approve) EXCEPT !.max_iterations = req.max_iterations]

StartedRun(qt) ==
    [IdleRun EXCEPT !.pc = "gen", !.S = InitialState(qt)]

\* ------------------------------------------------ starting the executors
\* cli/main.py: stream_interactive with human_approval_callback.
CliStart ==
    /\ deployment = "cli"
    /\ run["cb"].pc = "idle"
    /\ \E qt \in {"RESEARCH", "GREETING"} : run' = [run EXCEPT !["cb"] = StartedRun(qt)]
    /\ UNCHANGED << deployment, req, task, db, registered, evt, decisions, hist >>

\* websocket_research: a connection that finds the task pending schedules
\* run_research_workflow (asyncio.create_task). With REDIS_URL set one
\* connection is modelled, without it one or two.
WsConnect(e) ==
    /\ deployment \in {"api", "rqws", "api2"}
    /\ run[e].pc = "idle"
    /\ \A o \in WsEx : WsAtAwait(o)
    /\ task.status = "pending"
    /\ run' = [run EXCEPT ![e].pc = "scheduled"]
    /\ UNCHANGED << deployment, req, task, db, registered, evt, decisions, hist >>

\* run_research_workflow up to its first await: status PLANNING, persisted.
WsStart(e) ==
    /\ run[e].pc = "scheduled"
    /\ MayRun(e)
    /\ task' = [task EXCEPT !.status = "planning"]
    /\ db' = persist_task(task')
    /\ run' = [run EXCEPT ![e].pc = "ws_send_planning"]
    /\ UNCHANGED << deployment, req, registered, evt, decisions, hist >>

\* run_research_workflow: create_workflow, task["workflow"], persisted, and
\* the call of stream_interactive.
WsCreateWorkflow(e) ==
    /\ run[e].pc = "ws_send_planning"
    /\ MayRun(e)
    /\ task' = [task EXCEPT !.workflow = e]
    /\ db' = persist_task(task')
    /\ \E qt \in {"RESEARCH", "GREETING"} : run' = [run EXCEPT ![e] = StartedRun(qt)]
    /\ UNCHANGED << deployment, req, registered, evt, decisions, hist >>

\* run_research_job: status running, create_workflow, stream_interactive.
WkStart ==
    /\ deployment \in {"rq", "rqws"}
    /\ run["wk"].pc = "idle"
    /\ db' = update_task_in_db(db, "running", None)
    /\ \E qt \in {"RESEARCH", "GREETING"} : run' = [run EXCEPT !["wk"] = StartedRun(qt)]
    /\ UNCHANGED << deployment, req, task, registered, evt, decisions, hist >>

\* ------------------------------------------------------ the graph's steps
\* The outputs of the planning model a planner step may get: it is asked
\* only when a plan is created or modified.
PlannerAnswers(e, S) ==
    IF PlannerMode(S) = "keep" THEN {NoBraces}
    ELSE IF deployment \in {"rqws", "api2"} THEN FewPlanOutputs
    ELSE PlanOutputs

\* One node of the graph runs: the node, then its outgoing edge, evaluated
\* on the state the node returned; the output is yielded to the consumer.
\* The checkpoint of the previous step is written as the stream goes on.
Yield(e, node, S1, route) ==
    run' = [run EXCEPT ![e] = [@ EXCEPT !.pc = "consume", !.S = S1, !.next = route,
                                         !.resumed = FALSE, !.out = node,
                                         !.saver = Values(run[e].S)]]

RunCoordinator(e) ==
    /\ run[e].pc = "gen" /\ run[e].next = "coordinator" /\ MayRun(e)
    /\ LET S1 == coordinator_node(run[e].S)
       IN Yield(e, "coordinator", S1, should_continue_to_planner(S1))
    /\ UNCHANGED << deployment, req, task, db, registered, evt, decisions, hist >>

RunPlanner(e) ==
    /\ run[e].pc = "gen" /\ run[e].next = "planner" /\ MayRun(e)
    /\ \E out \in PlannerAnswers(e, run[e].S) :
          Yield(e, "planner", planner_node(run[e].S, out), "human_review")
    /\ hist' = [hist EXCEPT ![e] =
                  IF @.gate # "none" /\ @.planner_after_gate = "none"
                  THEN [@ EXCEPT !.planner_after_gate = PlannerMode(run[e].S),
                                 !.planner_fb = run[e].S.user_feedback]
                  ELSE @]
    /\ UNCHANGED << deployment, req, task, db, registered, evt, decisions >>

RunHumanReview(e) ==
    /\ run[e].pc = "gen" /\ run[e].next = "human_review" /\ run[e].resumed /\ MayRun(e)
    /\ LET S1 == human_review_node(run[e].S)
       IN /\ Yield(e, "human_review", S1, should_continue_research(S1))
          /\ hist' = [hist EXCEPT ![e].review_route = should_continue_research(S1)]
    /\ UNCHANGED << deployment, req, task, db, registered, evt, decisions >>

\* The researcher step, the searches of its subtask ending as one of Outs.
RunResearcherOn(e, Outs) ==
    /\ run[e].pc = "gen" /\ run[e].next = "researcher" /\ MayRun(e)
    /\ \E outs \in (IF get_next_task(run[e].S) = 0 THEN {<< >>} ELSE Outs) :
          LET S1 == researcher_node(run[e].S, outs)
          IN \E answer \in (IF ConsultsLLM(S1) THEN BOOLEAN ELSE {FALSE}) :
                LET d == should_generate_report(S1, answer)
                IN /\ Yield(e, "researcher", S1, d.to)
                   /\ hist' = [hist EXCEPT ![e] =
                        [@ EXCEPT !.checks = d.checks,
                                  !.sufficient =
                                      /\ S1.iteration_count < S1.max_iterations
                                      /\ evaluate_context_sufficiency(S1, answer),
                                  !.answered_true = @ \/ (ConsultsLLM(S1) /\ answer),
                                  !.researcher_runs = @ + 1,
                                  !.outs = outs,
                                  !.dispatched = get_next_task(run[e].S),
                                  !.unapproved_research = @ \/ ~run[e].S.plan_approved,
                                  !.feedback_at_research =
                                      @ \/ run[e].S.user_feedback # None]]
    /\ UNCHANGED << deployment, req, task, db, registered, evt, decisions >>

\* The subtask's searches: none made or one, which finds something.
FewOutcomes == { << >>, << "ok" >> }

RunResearcher(e) == RunResearcherOn(e, FewOutcomes)

RunRapporteur(e) ==
    /\ run[e].pc = "gen" /\ run[e].next = "rapporteur" /\ MayRun(e)
    /\ Yield(e, "rapporteur", rapporteur_node(run[e].S), "END")
    /\ UNCHANGED << deployment, req, task, db, registered, evt, decisions, hist >>

\* interrupt_before=["human_review"]: the stream ends before human_review.
\* The first stream of stream_interactive goes on to the approval block,
\* the second one returns.
Interrupt(e) ==
    /\ run[e].pc = "gen" /\ run[e].next = "human_review" /\ ~run[e].resumed /\ MayRun(e)
    /\ run' = [run EXCEPT ![e].pc = IF run[e].phase = 1 THEN "approval" ELSE "after_loop",
                          ![e].saver = Values(run[e].S)]
    /\ UNCHANGED << deployment, req, task, db, registered, evt, decisions, hist >>

\* The graph reached END.
StreamEnd(e) ==
    /\ run[e].pc = "gen" /\ run[e].next = "END" /\ MayRun(e)
    /\ run' = [run EXCEPT ![e].pc = "after_loop", ![e].saver = Values(run[e].S)]
    /\ UNCHANGED << deployment, req, task, db, registered, evt, decisions, hist >>

\* stream_interactive after the interrupt: auto_approve, or the callback's
\* decision, written with update_state; then graph.stream(None, ...).
CallbackWrites(approved, fb) ==
    IF approved THEN [plan_approved |-> TRUE, user_feedback |-> None]
    ELSE [plan_approved |-> FALSE, user_feedback |-> fb]

Resume(e, values) ==
    run' = [run EXCEPT ![e] = [@ EXCEPT !.pc = "gen", !.phase = 2, !.resumed = TRUE,
                                         !.saver = values,
                                         !.S = [@ EXCEPT !.plan_approved = values.plan_approved,
                                                         !.user_feedback = values.user_feedback]]]

ApprovalAuto(e) ==
    /\ run[e].pc = "approval" /\ MayRun(e)
    /\ req.auto_approve
    /\ Resume(e, [plan_approved |-> TRUE, user_feedback |-> None])
    /\ UNCHANGED << deployment, req, task, db, registered, evt, decisions, hist >>

ApprovalCallback(e) ==
    /\ run[e].pc = "approval" /\ e = "cb"
    /\ ~req.auto_approve /\ ~run[e].S.plan_approved
    /\ \E approved \in BOOLEAN, fb \in {None} \cup Feedbacks :
          /\ Resume(e, CallbackWrites(approved, fb))
          /\ hist' = [hist EXCEPT ![e].gate = IF approved THEN "approved" ELSE "rejected",
                                  ![e].gate_fb = fb]
    /\ UNCHANGED << deployment, req, task, db, registered, evt, decisions >>

\* A variant of CallbackRaises that takes the exception for a rejection
\* and resumes the graph; C29 is checked against it.
CallbackRaises_as_rejection(r) ==
    [r EXCEPT !.pc = "gen", !.phase = 2, !.resumed = TRUE]

\* The callback raises (the CLI's choice 3 raises KeyboardInterrupt):
\* the exception leaves stream_interactive before update_state and before
\* the second stream, and execute_research catches it and returns.
CallbackRaises(r) == [r EXCEPT !.pc = "done"]

ApprovalCallbackRaises(e) ==
    /\ run[e].pc = "approval" /\ e = "cb"
    /\ ~req.auto_approve /\ ~run[e].S.plan_approved
    /\ run' = [run EXCEPT ![e] = CallbackRaises(@)]
    /\ hist' = [hist EXCEPT ![e].gate = "raised"]
    /\ UNCHANGED << deployment, req, task, db, registered, evt, decisions >>

ApprovalNone(e) ==
    /\ run[e].pc = "approval" /\ e # "cb" /\ MayRun(e)
    /\ ~req.auto_approve
    /\ Resume(e, run[e].saver)
    /\ UNCHANGED << deployment, req, task, db, registered, evt, decisions, hist >>

\* ------------------------------------------- the callback executor (CLI)
\* cli/main.py shows each output and goes on.
CliConsume ==
    /\ run["cb"].pc = "consume"
    /\ run' = [run EXCEPT !["cb"].pc = "gen"]
    /\ UNCHANGED << deployment, req, task, db, registered, evt, decisions, hist >>

CliAfterLoop ==
    /\ run["cb"].pc = "after_loop"
    /\ run' = [run EXCEPT !["cb"].pc = "done"]
    /\ UNCHANGED << deployment, req, task, db, registered, evt, decisions, hist >>

\* ------------------------------------------------ the WebSocket executor
SetStatus(status) ==
    /\ task' = [task EXCEPT !.status = status]
    /\ db' = persist_task(task')

\* A variant of WsGate that opens the approval gate whether or not the
\* request asked for auto_approve; C34 is checked against it.
WsGate_unconditional(e) ==
    /\ e \in WsEx /\ run[e].pc = "consume" /\ MayRun(e)
    /\ run[e].S.current_step = "awaiting_approval"
    /\ SetStatus("awaiting_approval")
    /\ run' = [run EXCEPT ![e].pc = "ws_plan_ready"]
    /\ UNCHANGED << deployment, req, registered, evt, decisions, hist >>

\* run_research_workflow, step awaiting_approval without auto_approve:
\* status AWAITING_APPROVAL, persisted, plan_ready sent (an await).
WsGate(e) ==
    /\ e \in WsEx /\ run[e].pc = "consume" /\ MayRun(e)
    /\ run[e].S.current_step = "awaiting_approval" /\ ~req.auto_approve
    /\ SetStatus("awaiting_approval")
    /\ run' = [run EXCEPT ![e].pc = "ws_plan_ready"]
    /\ UNCHANGED << deployment, req, registered, evt, decisions, hist >>

\* Steps researching and generating_report: the status, persisted, and a
\* message sent (an await).
WsProgress(e) ==
    /\ e \in WsEx /\ run[e].pc = "consume" /\ MayRun(e)
    /\ run[e].S.current_step \in {"researching", "generating_report"}
    /\ SetStatus(run[e].S.current_step)
    /\ run' = [run EXCEPT ![e].pc = "ws_await"]
    /\ UNCHANGED << deployment, req, registered, evt, decisions, hist >>

\* Any other output: nothing is done with it.
WsSkip(e) ==
    /\ e \in WsEx /\ run[e].pc = "consume" /\ MayRun(e)
    /\ ~(run[e].S.current_step = "awaiting_approval" /\ ~req.auto_approve)
    /\ run[e].S.current_step \notin {"researching", "generating_report"}
    /\ run' = [run EXCEPT ![e].pc = "gen"]
    /\ UNCHANGED << deployment, req, task, db, registered, evt, decisions, hist >>

WsResume(e) ==
    /\ e \in WsEx /\ run[e].pc = "ws_await" /\ MayRun(e)
    /\ run' = [run EXCEPT ![e].pc = "gen"]
    /\ UNCHANGED << deployment, req, task, db, registered, evt, decisions, hist >>

\* evt = asyncio.Event(); active_approval_events[task_id] = evt; persisted;
\* then the wait.
WsRegister(e) ==
    /\ e \in WsEx /\ run[e].pc = "ws_plan_ready" /\ MayRun(e)
    /\ registered' = e
    /\ evt' = [evt EXCEPT ![e] = FALSE]
    /\ db' = persist_task(task)
    /\ run' = [run EXCEPT ![e].pc = "ws_waiting"]
    /\ hist' = [hist EXCEPT ![e].pre_approved = task.decided /\ task.plan_approved]
    /\ UNCHANGED << deployment, req, task, decisions >>

\* The wait returned: the event is popped, and the record's decision is
\* written into the graph with update_state.
WsWake(e) ==
    /\ e \in WsEx /\ run[e].pc = "ws_waiting" /\ MayRun(e)
    /\ evt[e]
    /\ registered' = "none"
    /\ run' = [run EXCEPT ![e].pc = "gen",
                          ![e].saver = [plan_approved |-> task.plan_approved,
                                        user_feedback |-> task.user_feedback]]
    /\ hist' = [hist EXCEPT ![e].gate = IF task.plan_approved THEN "approved" ELSE "rejected",
                            ![e].gate_fb = task.user_feedback]
    /\ UNCHANGED << deployment, req, task, db, evt, decisions >>

\* asyncio.TimeoutError: status FAILED, persisted, the error sent (an await).
WsTimeout(e) ==
    /\ e \in WsEx /\ run[e].pc = "ws_waiting" /\ MayRun(e)
    /\ ~evt[e]
    /\ SetStatus("failed")
    /\ run' = [run EXCEPT ![e].pc = "ws_timeout_send"]
    /\ hist' = [hist EXCEPT ![e].gate = "timeout"]
    /\ UNCHANGED << deployment, req, registered, evt, decisions >>

\* ... then the event is popped and the executor returns.
WsTimeoutCleanup(e) ==
    /\ e \in WsEx /\ run[e].pc = "ws_timeout_send" /\ MayRun(e)
    /\ registered' = "none"
    /\ run' = [run EXCEPT ![e].pc = "done"]
    /\ UNCHANGED << deployment, req, task, db, evt, decisions, hist >>

\* After the stream: COMPLETED with a final report, FAILED without.
WsAfterLoop(e) ==
    /\ e \in WsEx /\ run[e].pc = "after_loop" /\ MayRun(e)
    /\ SetStatus(IF run[e].S.final_report THEN "completed" ELSE "failed")
    /\ run' = [run EXCEPT ![e].pc = "ws_final_send"]
    /\ UNCHANGED << deployment, req, registered, evt, decisions, hist >>

WsFinish(e) ==
    /\ e \in WsEx /\ run[e].pc = "ws_final_send" /\ MayRun(e)
    /\ run' = [run EXCEPT ![e].pc = "done"]
    /\ UNCHANGED << deployment, req, task, db, registered, evt, decisions, hist >>

\* ------------------------------------------------------------ the worker
DbApproved == db.decided /\ db.plan_approved

\* run_research_job, step awaiting_approval without auto_approve: the
\* status, then the polling loop.
WkGate ==
    /\ run["wk"].pc = "consume"
    /\ run["wk"].S.current_step = "awaiting_approval" /\ ~req.auto_approve
    /\ db' = update_task_in_db(db, "awaiting_approval", None)
    /\ run' = [run EXCEPT !["wk"].pc = "wk_poll"]
    /\ hist' = [hist EXCEPT !["wk"].pre_approved = DbApproved]
    /\ UNCHANGED << deployment, req, task, registered, evt, decisions >>

\* A poll that reads plan_approved true: the stored feedback, when there is
\* one, is assigned into the yielded state.
WkPoll ==
    /\ run["wk"].pc = "wk_poll"
    /\ DbApproved
    /\ run' = [run EXCEPT !["wk"].pc = "wk_approved",
                          !["wk"].S.user_feedback =
                              IF db.user_feedback # None THEN db.user_feedback ELSE @]
    /\ hist' = [hist EXCEPT !["wk"].gate = "approved", !["wk"].gate_fb = db.user_feedback]
    /\ UNCHANGED << deployment, req, task, db, registered, evt, decisions >>

\* The loop ran out without reading an approval: failed.
WkTimeout ==
    /\ run["wk"].pc = "wk_poll"
    /\ ~DbApproved
    /\ db' = update_task_in_db(db, "failed", "approval_timeout_or_rejected")
    /\ run' = [run EXCEPT !["wk"].pc = "done"]
    /\ hist' = [hist EXCEPT !["wk"].gate = "timeout"]
    /\ UNCHANGED << deployment, req, task, registered, evt, decisions >>

\* Approved: plan_approved is assigned into the yielded state, the state
\* is written with update_state, and the progress is stored.
WkApproved ==
    /\ run["wk"].pc = "wk_approved"
    /\ LET S1 == [run["wk"].S EXCEPT !.plan_approved = TRUE]
       IN /\ run' = [run EXCEPT !["wk"].pc = "gen", !["wk"].S = S1, !["wk"].saver = Values(S1)]
          /\ db' = update_progress(db, S1)
    /\ UNCHANGED << deployment, req, task, registered, evt, decisions, hist >>

\* Any other output: the progress is stored with status researching.
WkUpdate ==
    /\ run["wk"].pc = "consume"
    /\ ~(run["wk"].S.current_step = "awaiting_approval" /\ ~req.auto_approve)
    /\ db' = update_progress(db, run["wk"].S)
    /\ run' = [run EXCEPT !["wk"].pc = "gen"]
    /\ UNCHANGED << deployment, req, task, registered, evt, decisions, hist >>

\* After the stream: completed.
WkAfterLoop ==
    /\ run["wk"].pc = "after_loop"
    /\ db' = update_task_in_db(db, "completed", None)
    /\ run' = [run EXCEPT !["wk"].pc = "done"]
    /\ UNCHANGED << deployment, req, task, registered, evt, decisions, hist >>

\* ------------------------------------------------------ get_task_status
\* GET /research/{task_id}: the status of the API process's in-memory
\* record (tasks_store, filled from the store once, at import); the store
\* is not read.
get_task_status == task.status

\* ------------------------------------------- the approve_plan message
\* websocket_research, message approve_plan: without a workflow on the
\* record nothing is done; with one, the decision is stored on the record
\* and persisted, a registered event is set, and the decision is written
\* into the graph of the record's workflow with update_state.
Decide(approved, fb) ==
    /\ deployment \in {"api", "rqws", "api2"}
    /\ \E e \in WsEx : run[e].pc # "idle"
    /\ \A e \in WsEx : WsAtAwait(e)
    /\ decisions < MaxDecisions
    /\ decisions' = decisions + 1
    /\ IF task.workflow = "none"
       THEN UNCHANGED << task, db, evt, run >>
       ELSE /\ task' = [task EXCEPT !.decided = TRUE, !.plan_approved = approved,
                                    !.user_feedback = fb]
            /\ db' = persist_task(task')
            /\ evt' = IF registered # "none" THEN [evt EXCEPT ![registered] = TRUE] ELSE evt
            /\ run' = [run EXCEPT ![task.workflow].saver =
                          [plan_approved |-> approved, user_feedback |-> fb]]
    /\ UNCHANGED << deployment, req, registered, hist >>

\* The steps of the graph and of stream_interactive, for executor e.
GraphStep(e) ==
    \/ RunCoordinator(e)
    \/ RunPlanner(e)
    \/ RunHumanReview(e)
    \/ RunResearcher(e)
    \/ RunRapporteur(e)
    \/ Interrupt(e)
    \/ StreamEnd(e)
    \/ ApprovalAuto(e)
    \/ ApprovalNone(e)

\* The steps of run_research_workflow for the connection's executor e.
WsStep(e) ==
    \/ WsConnect(e)
    \/ WsStart(e)
    \/ WsCreateWorkflow(e)
    \/ WsGate(e)
    \/ WsProgress(e)
    \/ WsSkip(e)
    \/ WsResume(e)
    \/ WsRegister(e)
    \/ WsWake(e)
    \/ WsTimeout(e)
    \/ WsTimeoutCleanup(e)
    \/ WsAfterLoop(e)
    \/ WsFinish(e)

DecideStep == \E approved \in BOOLEAN, fb \in {None} \cup Feedbacks : Decide(approved, fb)

\* One task, run from the CLI, by the API process for one WebSocket
\* connection, or by the worker with the API process beside it.
Next ==
    \/ CliStart
    \/ CliConsume
    \/ CliAfterLoop
    \/ ApprovalCallback("cb")
    \/ ApprovalCallbackRaises("cb")
    \/ WkStart
    \/ WkGate
    \/ WkPoll
    \/ WkTimeout
    \/ WkApproved
    \/ WkUpdate
    \/ WkAfterLoop
    \/ WsStep("ws1")
    \/ \E e \in {"cb", "wk", "ws1"} : GraphStep(e)
    \/ DecideStep

Spec == Init /\ [][Next]_vars

\* One task of the API process without REDIS_URL and without auto_approve,
\* with two connections.
Init2 == InitIn({"api2"}) /\ ~req.auto_approve

Next2 ==
    \/ \E e \in WsEx : WsConnect(e)
    \/ \E e \in WsEx : WsStart(e)
    \/ \E e \in WsEx : WsCreateWorkflow(e)
    \/ \E e \in WsEx : WsGate(e)
    \/ \E e \in WsEx : WsSkip(e)
    \/ \E e \in WsEx : WsRegister(e)
    \/ \E e \in WsEx : WsWake(e)
    \/ \E e \in WsEx : WsTimeout(e)
    \/ \E e \in WsEx : WsTimeoutCleanup(e)
    \/ \E e \in WsEx : WsAfterLoop(e)
    \/ \E e \in WsEx : WsFinish(e)
    \/ \E e \in WsEx : RunCoordinator(e)
    \/ \E e \in WsEx : RunPlanner(e)
    \/ \E e \in WsEx : RunHumanReview(e)
    \/ \E e \in WsEx : Interrupt(e)
    \/ \E e \in WsEx : StreamEnd(e)
    \/ \E e \in WsEx : ApprovalNone(e)
    \/ DecideStep

Spec2 == Init2 /\ [][Next2]_vars

\* ------------------------------------------------------ cancellation
\* cancel_task: the status of the API's record becomes cancelled; the
\* record is not persisted and no event is set.
cancel_task ==
    /\ deployment \in {"api", "rq", "rqws", "api2"}
    /\ \A e \in WsEx : WsAtAwait(e)
    /\ task' = [task EXCEPT !.status = "cancelled"]
    /\ UNCHANGED << deployment, req, run, db, registered, evt, decisions, hist >>

\* One task of the API process (one connection), or of the worker with no
\* client connected, with cancellation requests.
InitCancel == InitIn({"api", "rq"})

NextCancel ==
    \/ WkStart
    \/ WkGate
    \/ WkTimeout
    \/ WkUpdate
    \/ WkAfterLoop
    \/ WsStep("ws1")
    \/ \E e \in {"wk", "ws1"} : GraphStep(e)
    \/ DecideStep
    \/ cancel_task

SpecCancel == InitCancel /\ [][NextCancel]_vars

\* ------------------------------------------------- the job run again
\* run_research_job run for the task a second time, by another worker
\* process after the first one is gone: create_workflow builds a new graph
\* with a MemorySaver of its own, and stream_interactive starts it from
\* initialize_research. The checkpoints of the first process were in its
\* memory.
WkRerun ==
    /\ deployment = "rq"
    /\ run["wk"].pc = "consume"
    /\ ~hist["wk"].rerun
    /\ db' = update_task_in_db(db, "running", None)
    /\ run' = [run EXCEPT !["wk"] = StartedRun(run["wk"].S.query_type)]
    /\ hist' = [hist EXCEPT !["wk"].rerun = TRUE,
                            !["wk"].results_before = run["wk"].S.research_results,
                            !["wk"].plan_before = run["wk"].S.has_plan]
    /\ UNCHANGED << deployment, req, task, registered, evt, decisions >>

InitResume == InitIn({"rq"})

NextResume ==
    \/ WkStart
    \/ WkGate
    \/ WkTimeout
    \/ WkUpdate
    \/ WkAfterLoop
    \/ GraphStep("wk")
    \/ WkRerun

SpecResume == InitResume /\ [][NextResume]_vars

\* ------------------------------------- the planner's functions on their own
\* Plans to call the planner's functions on: up to MaxTasks subtasks with
\* distinct task_ids in any order, each with a priority or none, pending
\* or completed.
Priorities == {1, 2, DefaultPriority + 1, NoPriority}

FnSubTasks ==
    { SubTask(id, prio, st) :
        id \in 1..MaxTasks, prio \in Priorities, st \in {"pending", "completed"} }

FnPlans ==
    UNION { { q \in [1..n -> FnSubTasks] :
                \A i, j \in 1..n : i # j => q[i].task_id # q[j].task_id } :
            n \in 0..MaxTasks }

FnStates ==
    { initialize_research("RESEARCH", FALSE) }
    \cup { [initialize_research("RESEARCH", FALSE) EXCEPT !.has_plan = TRUE, !.sub_tasks = q] :
             q \in FnPlans }

InitFn ==
    /\ deployment = "fn"
    /\ req = [max_iterations |-> 1, auto_approve |-> FALSE]
    /\ \E S \in FnStates :
          run = [e \in Ex |-> IF e = "cb" THEN [IdleRun EXCEPT !.pc = "fn", !.S = S]
                              ELSE IdleRun]
    /\ task = NewTask
    /\ db = persist_task(NewTask)
    /\ registered = "none"
    /\ evt = [e \in WsEx |-> FALSE]
    /\ decisions = 0
    /\ hist = [e \in Ex |-> IdleHist]

\* researcher_node on the plan: get_next_task, and the subtask it returns
\* executed (no result found).
FnNextTask ==
    /\ run["cb"].pc = "fn"
    /\ get_next_task(run["cb"].S) # 0
    /\ run' = [run EXCEPT !["cb"].S = researcher_node(run["cb"].S, << >>)]
    /\ UNCHANGED << deployment, req, task, db, registered, evt, decisions, hist >>

\* create_research_plan on a state without a plan.
FnCreatePlan ==
    /\ run["cb"].pc = "fn"
    /\ hist["cb"].mode = "none"
    /\ ~run["cb"].S.has_plan
    /\ \E out \in PlanOutputs :
          /\ run' = [run EXCEPT !["cb"].S = create_research_plan(run["cb"].S, out)]
          /\ hist' = [hist EXCEPT !["cb"].mode = "create", !["cb"].answer = out.kind]
    /\ UNCHANGED << deployment, req, task, db, registered, evt, decisions >>

\* modify_plan on a state with a plan.
FnModifyPlan ==
    /\ run["cb"].pc = "fn"
    /\ hist["cb"].mode = "none"
    /\ run["cb"].S.has_plan
    /\ \E out \in FewPlanOutputs :
          /\ run' = [run EXCEPT !["cb"].S = modify_plan(run["cb"].S, out)]
          /\ hist' = [hist EXCEPT !["cb"].mode = "modify", !["cb"].answer = out.kind,
                                  !["cb"].plan_was = run["cb"].S.sub_tasks]
    /\ UNCHANGED << deployment, req, task, db, registered, evt, decisions >>

NextFn ==
    \/ FnNextTask
    \/ FnCreatePlan
    \/ FnModifyPlan

SpecFn == InitFn /\ [][NextFn]_vars

\* ------------------------------------------- searches that fail
\* The CLI's run in full: the callback approves, rejects or raises, and
\* the searches of a subtask (up to MaxSearches of them, over its queries
\* and sources) each end in any of the three ways.
AllOutcomes == UNION { [1..n -> SearchOutcomes] : n \in 0..MaxSearches }

InitSearch == InitIn({"cli"})

NextSearch ==
    \/ CliStart
    \/ CliConsume
    \/ CliAfterLoop
    \/ ApprovalCallback("cb")
    \/ ApprovalCallbackRaises("cb")
    \/ ApprovalAuto("cb")
    \/ RunCoordinator("cb")
    \/ RunPlanner("cb")
    \/ RunHumanReview("cb")
    \/ RunResearcherOn("cb", AllOutcomes)
    \/ RunRapporteur("cb")
    \/ Interrupt("cb")
    \/ StreamEnd("cb")

SpecSearch == InitSearch /\ [][NextSearch]_vars

\* ------------------------------------------------ a node that raises
\* The nodes that call a collaborator (the planning model, the search
\* tools' callers, the report writer).
RaisingNodes == {"planner", "researcher", "rapporteur"}

\* run_research_workflow, except Exception: the node's exception leaves
\* the stream and the loop; status FAILED, persisted, the error sent (an
\* await), and the coroutine ends.
WsNodeRaises(e) ==
    /\ e \in WsEx /\ run[e].pc = "gen" /\ MayRun(e)
    /\ run[e].next \in RaisingNodes
    /\ SetStatus("failed")
    /\ run' = [run EXCEPT ![e].pc = "ws_final_send"]
    /\ hist' = [hist EXCEPT ![e].raised = TRUE]
    /\ UNCHANGED << deployment, req, registered, evt, decisions >>

\* run_research_job, except Exception: status failed with the error, and
\* the job returns 2.
WkNodeRaises ==
    /\ run["wk"].pc = "gen"
    /\ run["wk"].next \in RaisingNodes
    /\ db' = update_task_in_db(db, "failed", "exception")
    /\ run' = [run EXCEPT !["wk"].pc = "done"]
    /\ hist' = [hist EXCEPT !["wk"].raised = TRUE]
    /\ UNCHANGED << deployment, req, task, registered, evt, decisions >>

\* One task of the API process (one connection), of the worker alone, or
\* of the worker with a client connected to the API, with nodes that may
\* raise.
InitFail == InitIn({"api", "rq", "rqws"})

NextFail ==
    \/ WkStart
    \/ WkGate
    \/ WkPoll
    \/ WkTimeout
    \/ WkApproved
    \/ WkUpdate
    \/ WkAfterLoop
    \/ WkNodeRaises
    \/ WsStep("ws1")
    \/ WsNodeRaises("ws1")
    \/ \E e \in {"wk", "ws1"} : GraphStep(e)
    \/ DecideStep

SpecFail == InitFail /\ [][NextFail]_vars

\* ------------------------------------------ the research loop on its own
\* The plans the loop is entered with are those of create_research_plan
\* (a second interrupt ends the stream, so a modified plan is never
\* researched): the subtasks of the planning model's answer, with the
\* task_ids it gave them, which may repeat, all pending.
LoopSubTasks == { SubTask(id, 1, "pending") : id \in 1..MaxTasks }

LoopPlans == UNION { [1..n -> LoopSubTasks] : n \in 0..MaxTasks }

\* The state the approved review step hands to the researcher:
\* max_iterations is the plan's estimated_iterations, the default or the
\* caller's value.
LoopState(q, m) ==
    human_review_node([initialize_research("RESEARCH", FALSE) EXCEPT
                          !.has_plan = TRUE, !.sub_tasks = q,
                          !.max_iterations = m, !.plan_approved = TRUE])

InitLoop ==
    /\ deployment = "loop"
    /\ req = [max_iterations |-> 1, auto_approve |-> FALSE]
    /\ \E q \in LoopPlans, m \in 0..MaxEst :
          run = [e \in Ex |-> IF e = "cb"
                              THEN [IdleRun EXCEPT !.pc = "gen", !.S = LoopState(q, m),
                                                   !.next = should_continue_research(LoopState(q, m)),
                                                   !.phase = 2, !.out = "human_review",
                                                   !.saver = Values(LoopState(q, m))]
                              ELSE IdleRun]
    /\ task = NewTask
    /\ db = persist_task(NewTask)
    /\ registered = "none"
    /\ evt = [e \in WsEx |-> FALSE]
    /\ decisions = 0
    /\ hist = [e \in Ex |-> IdleHist]

NextLoop ==
    \/ RunResearcher("cb")
    \/ RunRapporteur("cb")
    \/ StreamEnd("cb")
    \/ CliConsume
    \/ CliAfterLoop

SpecLoop == InitLoop /\ [][NextLoop]_vars

\* ------------------------------------- _update_task_in_db on its own
\* How the publishing at the end of _update_task_in_db goes: REDIS_URL is
\* not set; the redis module cannot be imported or from_url raises (r is
\* None); publish raises; or the message is published.
Transports == {"unset", "no_client", "publish_raises", "ok"}

\* A variant of _update_task_in_db that publishes before it commits and
\* lets a failing publish rise; C31 is checked against it.
update_and_publish_first(row, status, error, transport) ==
    IF transport \in {"no_client", "publish_raises"}
    THEN [row |-> row, published |-> FALSE, raised |-> TRUE]
    ELSE [row |-> update_task_in_db(row, status, error),
          published |-> (transport = "ok"), raised |-> FALSE]

\* _update_task_in_db in full: the merged row is committed, then the
\* update is published when there is a transport; whatever the publishing
\* raises is swallowed. update_and_publish stands for _update_task_in_db.
update_and_publish(row, status, error, transport) ==
    [row |-> update_task_in_db(row, status, error),
     published |-> (transport = "ok"), raised |-> FALSE]

\* The statuses and errors the worker writes.
WorkerStatuses == {"running", "awaiting_approval", "researching", "completed", "failed"}
WorkerErrors == {None, "approval_timeout_or_rejected", "exception"}

\* The rows the worker may find: the new task's row as the API stored it,
\* with or without a decision.
PublishRows ==
    { [persist_task(NewTask) EXCEPT !.decided = d, !.plan_approved = a] :
        d \in BOOLEAN, a \in BOOLEAN }

InitPublish ==
    /\ deployment = "pub"
    /\ req = [max_iterations |-> 1, auto_approve |-> FALSE]
    /\ run = [e \in Ex |-> IdleRun]
    /\ task = NewTask
    /\ db \in PublishRows
    /\ registered = "none"
    /\ evt = [e \in WsEx |-> FALSE]
    /\ decisions = 0
    /\ hist = [e \in Ex |-> IdleHist]

\* One call of _update_task_in_db by the worker.
PublishingUpdate ==
    /\ deployment = "pub"
    /\ \E status \in WorkerStatuses, error \in WorkerErrors, transport \in Transports :
          LET res == update_and_publish(db, status, error, transport)
          IN /\ db' = res.row
             /\ hist' = [hist EXCEPT !["wk"].pub =
                           << [ before |-> db, status |-> status, error |-> error,
                                transport |-> transport, published |-> res.published,
                                raised |-> res.raised ] >>]
    /\ UNCHANGED << deployment, req, run, task, registered, evt, decisions >>

NextPublish == PublishingUpdate

SpecPublish == InitPublish /\ [][NextPublish]_vars

\* ---------------------------------------------------------------- claims

\* C1: the researcher node runs only in a state whose plan_approved is
\* true, in every executor, and human_review is followed by the planner
\* when plan_approved is false and by the researcher when it is true.
C1_ResearchOnlyWhenApproved ==
    \A e \in Ex :
        /\ ~hist[e].unapproved_research
        /\ run[e].next = "researcher" => run[e].S.plan_approved
        /\ (run[e].pc = "consume" /\ run[e].out = "human_review") =>
              /\ run[e].next \in {"planner", "researcher"}
              /\ run[e].next = "researcher" <=> run[e].S.plan_approved

C1_Witness ==
    /\ hist["cb"].gate = "approved"
    /\ run["cb"].pc = "consume" /\ run["cb"].out = "researcher"
    /\ run["cb"].S.iteration_count = 1

\* C2: before the report stage iteration_count never exceeds
\* max_iterations, whatever wrote max_iterations and after every
\* researcher step, the first one after approval included.
C2_IterationWithinCap ==
    \A e \in Ex :
        run[e].S.current_step # "generating_report" =>
            run[e].S.iteration_count <= run[e].S.max_iterations

\* C3: should_generate_report checks the cap, then sufficiency, then the
\* pending subtasks: at the cap it routes to the report on the cap alone,
\* a sufficiency answer of true routes to the report even with subtasks
\* pending, and with max_iterations 2, three subtasks and no sufficiency
\* answer of true the report follows exactly two researcher iterations.
C3_ReportPrecedence ==
    \A e \in Ex :
        (run[e].pc = "consume" /\ run[e].out = "researcher") =>
            LET S == run[e].S
                h == hist[e]
            IN  /\ S.iteration_count >= S.max_iterations =>
                      run[e].next = "rapporteur" /\ h.checks = << "cap" >>
                /\ (S.iteration_count < S.max_iterations /\ h.sufficient) =>
                      /\ run[e].next = "rapporteur"
                      /\ h.checks = << "cap", "sufficiency" >>
                /\ (S.iteration_count < S.max_iterations /\ ~h.sufficient) =>
                      /\ h.checks = << "cap", "sufficiency", "tasks" >>
                      /\ run[e].next = "researcher" <=> get_next_task(S) # 0
                /\ ( /\ S.max_iterations = 2
                     /\ Len(S.sub_tasks) = 3
                     /\ ~h.answered_true
                     /\ run[e].next = "rapporteur" ) =>
                      S.iteration_count = 2 /\ h.researcher_runs = 2

C3_Witness ==
    \E e \in Ex :
        /\ run[e].pc = "consume" /\ run[e].out = "researcher"
        /\ run[e].next = "rapporteur"
        /\ run[e].S.max_iterations = 2
        /\ Len(run[e].S.sub_tasks) = 3
        /\ ~hist[e].answered_true
        /\ hist[e].researcher_runs = 2
        /\ get_next_task(run[e].S) # 0

\* C4: the max_iterations the caller supplied bounds the number of
\* subtasks the run dispatches to the researcher.
C4_CallerCapBoundsDispatch ==
    \A e \in Ex :
        run[e].pc # "idle" => run[e].S.iteration_count <= req.max_iterations

\* C5: when an approving decision is on the task before the executor
\* begins its approval wait, the wait returns with the approval: it
\* neither stays blocked nor ends in the timeout.
C5_EarlyApprovalSeen ==
    \A e \in Ex :
        hist[e].pre_approved =>
            /\ run[e].pc = "ws_waiting" => evt[e]
            /\ hist[e].gate # "timeout"

\* C6: a task has at most one pending approval wait; a second
\* registration leaves the existing wait registered, so every executor
\* that is waiting is the one a later decision wakes.
C6_SingleWait ==
    \A e \in WsEx : run[e].pc = "ws_waiting" => registered = e

\* C7: when the approval wait runs out, the task's status becomes failed
\* and the reason approval_timeout is recorded with it, in the WebSocket
\* executor and in the worker.
C7_TimeoutRecorded ==
    /\ \A e \in WsEx :
          run[e].pc = "ws_timeout_send" =>
              /\ task.status = "failed" /\ db.status = "failed"
              /\ db.error = "approval_timeout"
    /\ (deployment = "rq" /\ hist["wk"].gate = "timeout") =>
          db.status = "failed" /\ db.error = "approval_timeout"

\* C8: after a rejection with feedback text the state that goes back to
\* the planner holds that feedback, the planner is the next node to run
\* after the review, and it modifies the plan using the feedback; in
\* every executor.
C8_RejectionReachesPlanner ==
    \A e \in Ex :
        /\ (hist[e].gate = "rejected" /\ hist[e].gate_fb # None
              /\ hist[e].planner_after_gate = "none"
              /\ run[e].pc = "gen" /\ run[e].next # "human_review") =>
              /\ run[e].next = "planner"
              /\ run[e].S.user_feedback = hist[e].gate_fb
        /\ (hist[e].gate = "rejected" /\ hist[e].gate_fb # None
              /\ hist[e].planner_after_gate # "none") =>
              /\ hist[e].planner_after_gate = "modify"
              /\ hist[e].planner_fb = hist[e].gate_fb

\* C9: once an approval has ended the wait, the state the workflow goes
\* on with has plan_approved true and user_feedback null, whatever
\* feedback text came with the decision, and the researcher is never
\* entered with feedback set; in every executor.
C9_ApprovalClearsFeedback ==
    \A e \in Ex :
        /\ ~hist[e].feedback_at_research
        /\ (hist[e].gate = "approved" /\ run[e].pc = "gen"
              /\ hist[e].planner_after_gate = "none") =>
              run[e].S.plan_approved /\ run[e].S.user_feedback = None

\* C10: once an approval wait has ended with a decision, a further
\* decision changes neither the task record's plan_approved and
\* user_feedback nor the workflow state, running or saved.
C10_LateDecisionNoOp ==
    [][ ( /\ decisions' = decisions + 1
          /\ \E e \in Ex : hist[e].gate \in {"approved", "rejected"} ) =>
        ( /\ task'.plan_approved = task.plan_approved
          /\ task'.user_feedback = task.user_feedback
          /\ \A e \in Ex : run'[e].S = run[e].S /\ run'[e].saver = run[e].saver )
      ]_vars

\* C11: every decision delivered is stored on the task record, in the API
\* process and in the store, whether or not a wait is registered and
\* whether or not the executor has created its workflow yet.
C11_DecisionRecorded ==
    [][ decisions' = decisions + 1 =>
          \E approved \in BOOLEAN, fb \in {None} \cup Feedbacks :
              /\ Decide(approved, fb)
              /\ task'.decided /\ task'.plan_approved = approved
              /\ task'.user_feedback = fb
              /\ db'.decided /\ db'.plan_approved = approved
              /\ db'.user_feedback = fb
      ]_vars

\* C14: the stored record holds, for each field, the last value its writer
\* wrote: the worker's error survives the API's writes, and the API's
\* plan_approved and user_feedback survive the worker's.
C14_NoLostField ==
    deployment \in {"rq", "rqws"} =>
        /\ hist["wk"].gate = "timeout" => db.error = "approval_timeout_or_rejected"
        /\ task.decided =>
              /\ db.decided
              /\ db.plan_approved = task.plan_approved
              /\ db.user_feedback = task.user_feedback

\* C15: a task whose status is completed, on the API's record or in the
\* store, has a final report in the state of the executor that ran it.
C15_CompletedHasReport ==
    /\ task.status = "completed" => \E e \in WsEx : run[e].S.final_report
    /\ db.status = "completed" => \E e \in WsEx \cup {"wk"} : run[e].S.final_report

\* C16: at most one executor of the task is running a workflow at any time.
C16_SingleExecutor ==
    Cardinality({ e \in Ex : run[e].pc \notin {"idle", "scheduled", "done"} }) <= 1

\* C12: a cancellation that arrives while an executor is suspended in its
\* approval wait wakes that wait.
C12_CancelWakesGate ==
    [][ ( /\ task.status # "cancelled" /\ task'.status = "cancelled"
          /\ \E e \in WsEx : run[e].pc = "ws_waiting" ) =>
        \A e \in WsEx : run[e].pc = "ws_waiting" => evt'[e]
      ]_vars

\* C13: once the status is cancelled it stays cancelled, and no executor
\* runs another node of the workflow.
C13_CancelledStops ==
    [][ task.status = "cancelled" =>
          /\ task'.status = "cancelled"
          /\ \A e \in Ex : run'[e].pc = "consume" => run[e].pc = "consume"
      ]_vars

\* s is a prefix of t.
C17_IsPrefix(s, t) ==
    Len(s) <= Len(t) /\ \A i \in 1..Len(s) : t[i] = s[i]

\* C17: a run that takes a task up again after a state S goes on from S:
\* the plan made before is still there and the results gathered before are
\* the beginning of its results, so that what was done is not done again.
C17_ResumeContinues ==
    hist["wk"].rerun =>
        /\ hist["wk"].plan_before => run["wk"].S.has_plan
        /\ C17_IsPrefix(hist["wk"].results_before, run["wk"].S.research_results)

\* The order C18 speaks of: by priority, a subtask without one after every
\* subtask with one, then by task_id.
C18_NotAfter(a, b) ==
    IF a.priority = NoPriority /\ b.priority = NoPriority THEN a.task_id <= b.task_id
    ELSE IF a.priority = NoPriority THEN FALSE
    ELSE IF b.priority = NoPriority THEN TRUE
    ELSE \/ a.priority < b.priority
         \/ a.priority = b.priority /\ a.task_id <= b.task_id

\* C18: get_next_task returns none exactly when no subtask is pending, and
\* otherwise a pending subtask that no pending subtask precedes in the
\* order by priority (none last) and task_id.
C18_NextTaskOrder ==
    deployment = "fn" =>
        LET S == run["cb"].S
            i == get_next_task(S)
        IN /\ i = 0 <=> (~S.has_plan \/ PendingIdx(S.sub_tasks) = {})
           /\ i # 0 =>
                 /\ i \in PendingIdx(S.sub_tasks)
                 /\ \A j \in PendingIdx(S.sub_tasks) :
                       C18_NotAfter(S.sub_tasks[i], S.sub_tasks[j])

\* C19: create_research_plan gives the minimal fallback plan (one pending
\* subtask, task_id 1, priority 1) whenever the answer has no braces, is
\* not JSON, or is a JSON object without subtasks.
C19_FallbackOnEveryFailure ==
    ( /\ deployment = "fn"
      /\ hist["cb"].mode = "create"
      /\ run["cb"].S.current_step # "researching"
      /\ \/ hist["cb"].answer \in {"nobraces", "badjson"}
         \/ run["cb"].S.sub_tasks = << >> ) =>
        /\ run["cb"].S.has_plan
        /\ run["cb"].S.sub_tasks = << SubTask(1, 1, "pending") >>

\* C20: modify_plan with an answer that has no braces or is not JSON
\* leaves the plan as it was before the call.
C20_ModifyKeepsPlanOnFailure ==
    ( /\ deployment = "fn"
      /\ hist["cb"].mode = "modify"
      /\ hist["cb"].answer \in {"nobraces", "badjson"}
      /\ run["cb"].S.current_step # "researching" ) =>
        /\ run["cb"].S.has_plan
        /\ run["cb"].S.sub_tasks = hist["cb"].plan_was

C20_Witness ==
    /\ deployment = "fn"
    /\ hist["cb"].mode = "modify"
    /\ hist["cb"].answer = "badjson"
    /\ Len(hist["cb"].plan_was) = 2
    /\ run["cb"].S.sub_tasks = hist["cb"].plan_was
    /\ run["cb"].S.current_step # "researching"

\* C21: a plan that create_research_plan or modify_plan has just put into
\* the state has every subtask pending: on the parsed answer, on both
\* fallbacks, and on a modification.
C21_AttachedPlanPending ==
    ( /\ deployment = "fn"
      /\ run["cb"].S.current_step # "researching"
      /\ \/ hist["cb"].mode = "create"
         \/ hist["cb"].mode = "modify" /\ hist["cb"].answer = "ok" ) =>
        \A i \in 1..Len(run["cb"].S.sub_tasks) :
            run["cb"].S.sub_tasks[i].status = "pending"

\* C22: when a search of the subtask raised, the researcher step has
\* recorded, for each search that gave a result, a result tagged with the
\* subtask (for the failed one with the error and no items), the subtask
\* is completed, and the run goes on: to the researcher when the cap is not
\* reached, the context is not judged sufficient and a subtask is pending,
\* and to the report otherwise.
C22_SearchErrorRecorded ==
    ( /\ run["cb"].pc = "consume" /\ run["cb"].out = "researcher"
      /\ hist["cb"].dispatched # 0
      /\ \E k \in 1..Len(hist["cb"].outs) : hist["cb"].outs[k] = "raise" ) =>
        LET S == run["cb"].S
            found == SelectSeq(hist["cb"].outs, LAMBDA o : o # "none")
            n == Len(S.research_results)
            id == S.sub_tasks[hist["cb"].dispatched].task_id
        IN /\ Len(found) <= n
           /\ \A r \in 1..Len(found) :
                 LET res == S.research_results[n - Len(found) + r]
                 IN /\ res.task_id = id
                    /\ found[r] = "raise" => res.error /\ res.results = 0
                    /\ found[r] = "ok" => ~res.error
           /\ S.sub_tasks[hist["cb"].dispatched].status = "completed"
           /\ S.current_step = "researching"
           /\ run["cb"].next \in {"researcher", "rapporteur"}
           /\ ( /\ S.iteration_count < S.max_iterations
                /\ ~hist["cb"].sufficient
                /\ get_next_task(S) # 0 ) => run["cb"].next = "researcher"

C22_Witness ==
    /\ run["cb"].pc = "consume" /\ run["cb"].out = "researcher"
    /\ hist["cb"].outs = << "raise" >>
    /\ run["cb"].S.research_results = << SearchResult(1, "raise") >>
    /\ run["cb"].S.sub_tasks[1].status = "completed"
    /\ get_next_task(run["cb"].S) # 0
    /\ run["cb"].next = "researcher"

\* C23: research_results only grows, and a step adds to it only results
\* of the subtask it dispatched: every step leaves the results it found as
\* the beginning of the results it leaves, and what it appends is tagged
\* with the pending subtask get_next_task gave it.
C23_ResultsAppendOnly ==
    [][ \A e \in Ex :
          LET old == run[e].S.research_results
              new == run'[e].S.research_results
              i == get_next_task(run[e].S)
          IN /\ C17_IsPrefix(old, new)
             /\ \A r \in (Len(old) + 1)..Len(new) :
                   /\ i # 0
                   /\ new[r].task_id = run[e].S.sub_tasks[i].task_id
                   /\ run'[e].S.sub_tasks[i].status = "completed"
      ]_vars

C23_Witness ==
    \E e \in Ex :
        /\ run[e].S.research_results = << SearchResult(1, "ok"), SearchResult(2, "ok") >>
        /\ hist[e].gate = "approved"

\* C24: when a node of an executor has raised, the task's status is
\* failed in that executor's store from then on (the API's record and the
\* stored row for the WebSocket executor, the stored row for the worker),
\* and no executor runs a node of the task any more.
C24_NodeFailureStops ==
    [][ /\ \A e \in WsEx :
              hist'[e].raised => task'.status = "failed" /\ db'.status = "failed"
        /\ hist'["wk"].raised => db'.status = "failed"
        /\ (\E e \in Ex : hist[e].raised) =>
              \A o \in Ex : ~(run[o].pc = "gen" /\ run'[o].pc = "consume")
      ]_vars

\* C27: the status of the task, on the API's record and in the stored row,
\* is always one of the eight values of ResearchStatus.
ResearchStatus ==
    { "pending", "planning", "awaiting_approval", "researching",
      "generating_report", "completed", "failed", "cancelled" }

C27_StatusInEnum ==
    /\ task.status \in ResearchStatus
    /\ db.status \in ResearchStatus

\* C25: handling a decision changes nothing of the task but plan_approved
\* and user_feedback: the status on the API's record, the status and the
\* error of the stored row whoever wrote them, and the plan, the results
\* and the iteration count of every workflow state stay as they were.
C25_DecisionFrame ==
    [][ decisions' = decisions + 1 =>
          /\ task'.status = task.status
          /\ task'.workflow = task.workflow
          /\ db'.status = db.status
          /\ db'.error = db.error
          /\ \A e \in Ex :
                /\ run'[e].S.sub_tasks = run[e].S.sub_tasks
                /\ run'[e].S.research_results = run[e].S.research_results
                /\ run'[e].S.iteration_count = run[e].S.iteration_count
                /\ run'[e].S.current_step = run[e].S.current_step
      ]_vars

\* What a stored snapshot holds of a node's resulting state.
C26_Captured(S) ==
    [ current_step |-> S.current_step, has_plan |-> S.has_plan, sub_tasks |-> S.sub_tasks,
      research_results |-> S.research_results, iteration_count |-> S.iteration_count,
      final_report |-> S.final_report ]

\* C26: when an executor that writes to the store starts a node after
\* another node of its run, the stored row holds the snapshot of the state
\* that node returned.
C26_WriteBeforeAdvance ==
    [][ \A e \in WsEx \cup {"wk"} :
          ( /\ run[e].pc = "gen" /\ run'[e].pc = "consume"
            /\ run[e].out # "none" ) =>
              /\ db.progress # << >>
              /\ C26_Captured(db.progress[1]) = C26_Captured(run[e].S)
      ]_vars

\* C28: a write of the API's record that holds the live workflow object
\* stores every field of the record, with the placeholder in the place of
\* the object; and no later write of either process removes it.
C28_PlaceholderWrite ==
    [][ /\ (task' # task /\ task'.workflow # "none") =>
              /\ db'.workflow = Placeholder
              /\ db'.status = task'.status
              /\ db'.decided = task'.decided
              /\ db'.plan_approved = task'.plan_approved
              /\ db'.user_feedback = task'.user_feedback
        /\ db.workflow = Placeholder => db'.workflow = Placeholder
      ]_vars

C28_Witness ==
    /\ task.workflow = "ws1"
    /\ task.decided /\ task.user_feedback = "fb"
    /\ db.workflow = Placeholder
    /\ db.decided /\ db.user_feedback = "fb"
    /\ db.status = "awaiting_approval"

\* C29: once the approval callback has raised, the run is over: no
\* approval and no feedback is in the workflow state or in its checkpoint,
\* and no node runs (nothing is researched, no report is written).
C29_CallbackRaiseEndsRun ==
    [][ hist'["cb"].gate = "raised" =>
          /\ run'["cb"].pc = "done"
          /\ ~run'["cb"].S.plan_approved
          /\ run'["cb"].S.user_feedback = None
          /\ run'["cb"].saver = [plan_approved |-> FALSE, user_feedback |-> None]
          /\ run'["cb"].S.research_results = << >>
          /\ ~run'["cb"].S.final_report
          /\ hist'["cb"].researcher_runs = 0
      ]_vars

C29_Witness ==
    /\ hist["cb"].gate = "raised"
    /\ run["cb"].pc = "done"
    /\ run["cb"].S.has_plan
    /\ Len(run["cb"].S.sub_tasks) = 2

\* C30: the state planner_node returns after it modified the plan on the
\* user's feedback has user_feedback null.
C30_PlannerClearsFeedback ==
    \A e \in Ex :
        ( /\ run[e].pc = "consume" /\ run[e].out = "planner"
          /\ hist[e].planner_after_gate = "modify" ) =>
            run[e].S.user_feedback = None

\* C31: after a call of _update_task_in_db the row holds the merged
\* record, whatever the publishing did: the status written, the error
\* when one was given, every other field as before; the call did not
\* raise; and nothing is published without a transport or a client.
C31_PublishNeverBlocksWrite ==
    (deployment = "pub" /\ hist["wk"].pub # << >>) =>
        LET p == hist["wk"].pub[1]
        IN /\ ~p.raised
           /\ db.status = p.status
           /\ db.error = IF p.error = None THEN p.before.error ELSE p.error
           /\ db.decided = p.before.decided
           /\ db.plan_approved = p.before.plan_approved
           /\ db.user_feedback = p.before.user_feedback
           /\ db.workflow = p.before.workflow
           /\ db.progress = p.before.progress
           /\ p.published <=> p.transport = "ok"

C31_Witness ==
    /\ deployment = "pub"
    /\ hist["wk"].pub # << >>
    /\ hist["wk"].pub[1].transport = "publish_raises"
    /\ hist["wk"].pub[1].before.status = "researching"
    /\ db.status = "failed" /\ db.error = "exception"

\* C32: after a rejection and the re-plan that follows it the run is
\* suspended for a second decision: the stream never ends, and the run
\* never finishes, with the new plan still waiting for its review.
C32_RejectedPlanReviewedAgain ==
    \A e \in Ex :
        (hist[e].gate = "rejected" /\ hist[e].planner_after_gate # "none") =>
            ~(run[e].pc \in {"after_loop", "ws_final_send", "done"}
              /\ run[e].next = "human_review")

\* C33: every researcher step either dispatches a pending subtask and
\* adds one to iteration_count, or dispatches nothing and leaves the loop
\* for the rapporteur; the loop is re-entered only below the cap, so the
\* researcher runs at most max_iterations times (once when the cap is 0
\* or there is nothing to dispatch) and the only way out of the loop is
\* the rapporteur.
C33_LoopTerminates ==
    [][ hist'["cb"].researcher_runs # hist["cb"].researcher_runs =>
          LET S == run["cb"].S
              T == run'["cb"].S
          IN /\ \/ /\ get_next_task(S) # 0
                   /\ S.sub_tasks[get_next_task(S)].status = "pending"
                   /\ T.iteration_count = S.iteration_count + 1
                \/ /\ get_next_task(S) = 0
                   /\ T.iteration_count = S.iteration_count
                   /\ run'["cb"].next = "rapporteur"
             /\ run'["cb"].next \in {"researcher", "rapporteur"}
             /\ run'["cb"].next = "researcher" => T.iteration_count < T.max_iterations
             /\ hist'["cb"].researcher_runs = hist["cb"].researcher_runs + 1
             /\ hist'["cb"].researcher_runs <= T.max_iterations
                  \/ hist'["cb"].researcher_runs = 1 ]_vars

\* The cap ended the loop with a subtask still pending, one whose task_id
\* another subtask shares, and the report was written.
C33_Witness ==
    /\ deployment = "loop"
    /\ run["cb"].S.final_report
    /\ hist["cb"].researcher_runs = 3
    /\ run["cb"].S.iteration_count = run["cb"].S.max_iterations
    /\ \E i, j \in 1..Len(run["cb"].S.sub_tasks) :
          /\ i # j
          /\ run["cb"].S.sub_tasks[i].task_id = run["cb"].S.sub_tasks[j].task_id
          /\ run["cb"].S.sub_tasks[j].status = "pending"

\* No two subtasks share a task_id.
C36_UniqueIds(sub_tasks) ==
    \A i, j \in 1..Len(sub_tasks) : i # j => sub_tasks[i].task_id # sub_tasks[j].task_id

\* How many subtasks are completed.
C36_Completed(sub_tasks) ==
    Cardinality({ i \in 1..Len(sub_tasks) : sub_tasks[i].status = "completed" })

\* C36: for a plan whose task_ids are unique, the subtask a researcher
\* step dispatches was pending before the step and is completed after it,
\* no other subtask changes, a completed subtask stays completed, and
\* after every step of the loop the number of completed subtasks equals
\* iteration_count.
C36_DispatchedOnce ==
    [][ (deployment = "loop" /\ C36_UniqueIds(run["cb"].S.sub_tasks)) =>
          LET S == run["cb"].S
              T == run'["cb"].S
              i == get_next_task(S)
          IN /\ Len(T.sub_tasks) = Len(S.sub_tasks)
             /\ \A k \in 1..Len(S.sub_tasks) :
                   S.sub_tasks[k].status = "completed" => T.sub_tasks[k].status = "completed"
             /\ hist'["cb"].researcher_runs # hist["cb"].researcher_runs =>
                   /\ hist'["cb"].dispatched = i
                   /\ i # 0 => /\ S.sub_tasks[i].status = "pending"
                               /\ T.sub_tasks[i].status = "completed"
                   /\ \A k \in 1..Len(S.sub_tasks) :
                         k # i => T.sub_tasks[k] = S.sub_tasks[k]
             /\ C36_Completed(T.sub_tasks) = T.iteration_count ]_vars

\* Three subtasks with distinct task_ids were dispatched one after the
\* other and all three are completed.
C36_Witness ==
    /\ deployment = "loop"
    /\ C36_UniqueIds(run["cb"].S.sub_tasks)
    /\ Len(run["cb"].S.sub_tasks) = 3
    /\ C36_Completed(run["cb"].S.sub_tasks) = 3
    /\ run["cb"].S.iteration_count = 3
    /\ hist["cb"].researcher_runs = 3

\* C34: with auto_approve no executor ever waits for a decision: no
\* approval wait is registered, no executor is at its gate, no gate or
\* callback outcome is recorded, the status is never awaiting_approval,
\* the review step leaves plan_approved true and routes to the
\* researcher, the planner does not run a second time, and the
\* researcher only ever runs on an approved plan.
C34_AutoApproveNeverWaits ==
    req.auto_approve =>
        /\ registered = "none"
        /\ task.status # "awaiting_approval" /\ db.status # "awaiting_approval"
        /\ \A e \in Ex :
              /\ run[e].pc \notin {"ws_plan_ready", "ws_waiting", "ws_timeout_send",
                                   "wk_poll", "wk_approved"}
              /\ hist[e].gate = "none"
              /\ hist[e].review_route \in {"none", "researcher"}
              /\ run[e].phase = 2 => run[e].S.plan_approved
              /\ (run[e].pc = "consume" /\ run[e].out = "human_review") =>
                    run[e].next = "researcher"
              /\ ~hist[e].unapproved_research
              /\ run[e].next = "planner" => run[e].out = "coordinator"

\* The worker and the executor of a connected client both went from the
\* plan to the research with auto_approve and no decision made.
C34_Witness ==
    /\ req.auto_approve
    /\ decisions = 0
    /\ hist["wk"].researcher_runs > 0
    /\ hist["ws1"].researcher_runs > 0
    /\ run["ws1"].S.final_report

\* C35: once the task's status is completed or failed, on the API's
\* record or in the store, no step changes it.
C35_TerminalStable ==
    [][ /\ task.status \in {"completed", "failed"} => task'.status = task.status
        /\ db.status \in {"completed", "failed"} => db'.status = db.status ]_vars

\* C37: a decision that arrives after an executor's approval wait has
\* timed out leaves the failed status that executor wrote as it is (the
\* API's record and the stored row for the WebSocket executor, the stored
\* row for the worker) and finds no wait registered for an executor that
\* has returned; and after a timeout no researcher or rapporteur step of
\* the task runs.
C37_LateDecisionNoRevival ==
    [][ /\ decisions' = decisions + 1 =>
              /\ \A e \in WsEx :
                    (hist[e].gate = "timeout" /\ run[e].pc = "done") =>
                        /\ task.status = "failed" => task'.status = "failed"
                        /\ db.status = "failed" => db'.status = "failed"
                        /\ registered' # e
              /\ (hist["wk"].gate = "timeout" /\ db.status = "failed") =>
                    db'.status = "failed"
        /\ (\E e \in Ex : hist[e].gate = "timeout") =>
              \A o \in Ex :
                  ~(run[o].pc = "gen" /\ run'[o].pc = "consume"
                    /\ run'[o].out \in {"researcher", "rapporteur"})
      ]_vars

\* C38: in the worker deployment, once the worker has finished, the
\* status get_task_status returns for the task is the one the worker
\* wrote to the store last.
C38_WorkerStatusVisible ==
    (deployment = "rq" /\ run["wk"].pc = "done") => get_task_status = db.status

====
